---- MODULE Spec2Model ----
(***************************************************************************)
(* Model of the problem discovery service (main.go).                       *)
(*                                                                         *)
(* The service is an HTTP front-end for the Codeforces problemset API:     *)
(* four handlers fetch a problem list from upstream, sort it by rating,    *)
(* optionally keep only the problems with a given number of tags, and      *)
(* encode the result as JSON; a fifth handler answers /health; main runs   *)
(* the server until SIGINT/SIGTERM and then shuts it down with a grace     *)
(* period.                                                                 *)
(*                                                                         *)
(* Strings that the code takes apart (the `tags` query parameter) are      *)
(* sequences of tokens, "," being a token of its own.  A Go slice is a     *)
(* record [isNil, elems]: a nil slice and an empty slice differ in how     *)
(* encoding/json writes them.  sort.Slice does not promise any order       *)
(* between elements that compare equal, so the sort yields any of the      *)
(* orderings its contract allows.                                          *)
(***************************************************************************)
EXTENDS Integers, Sequences, FiniteSets

\* ---------------------------------------------------------------- bounds
MaxLen == 2          \* longest upstream problem list
MaxRating == 2       \* ratings are 1..MaxRating
MaxTags == 2         \* most tags one problem carries
MaxParamLen == 2     \* longest query parameter, in tokens
MaxConns == 2        \* connections served at once
MaxLenServer == 1    \* longest upstream list in the server-lifecycle runs

\* ------------------------------------------------------------- constants
GracePeriod == 10
StatusOK == 200
StatusInternalServerError == 500
StatusNotFound == 404

VARIABLES
    pc,       \* pc[c]: "idle", "handling", "done" or "abandoned"
    req,      \* req[c]: the request being served on connection c
    sent,     \* sent[c]: what upstream put on the wire for c's http.Get
    resp,     \* resp[c]: the response written on c
    calls,    \* calls[c]: upstream calls made for the request on c
    server,   \* "serving", "draining" (Shutdown running) or "exited"
    elapsed   \* seconds since Shutdown was called

vars == <<pc, req, sent, resp, calls, server, elapsed>>

\* --------------------------------------------------------------- helpers
Range(s) == {s[i] : i \in DOMAIN s}

SeqsUpTo(S, n) == UNION {[1..m -> S] : m \in 0..n}

Perms(n) == {f \in [1..n -> 1..n] : \A i, j \in 1..n : i # j => f[i] # f[j]}

\* ------------------------------------------------------------ data model
TagNames == {"dp", "greedy"}

\* tag lists as upstream sends them: no tag twice
TagLists == {t \in SeqsUpTo(TagNames, MaxTags) :
                \A i, j \in DOMAIN t : i # j => t[i] # t[j]}

Problem == [rating : 1..MaxRating, tags : TagLists]

NilSlice == [isNil |-> TRUE, elems |-> <<>>]

Slices(n) == {NilSlice} \cup {[isNil |-> FALSE, elems |-> s] : s \in SeqsUpTo(Problem, n)}

\* what one upstream call can come back with
HttpStatuses == {200, 503}

RepliesUpTo(n) ==
    {[kind |-> "transport", status |-> 0, problems |-> NilSlice]}
    \cup [kind : {"readerr", "badjson"}, status : HttpStatuses, problems : {NilSlice}]
    \cup [kind : {"json"}, status : HttpStatuses, problems : Slices(n)]

Replies == RepliesUpTo(MaxLen)

\* the replies of the server-lifecycle runs: upstream unreachable, or a list
\* of a single-tag problem
ServerReplies ==
    {r \in RepliesUpTo(MaxLenServer) :
        \/ r.kind = "transport"
        \/ /\ r.kind = "json"
           /\ r.status = 200
           /\ ~r.problems.isNil
           /\ \A p \in Range(r.problems.elems) : p = [rating |-> 1, tags |-> <<"dp">>]}

NoReply == [kind |-> "none", status |-> 0, problems |-> NilSlice]

Paths == {"/health", "/problems", "/problems/multi", "/problems/only",
          "/problems/multi/only", "/tags"}

ParamTokens == {"dp", ","}

Params == SeqsUpTo(ParamTokens, MaxParamLen)

ServerParams == {<<"dp">>}

NoReq == [path |-> "", param |-> <<>>]

NoBody == [kind |-> "none", text |-> "", items |-> <<>>]

NoResp == [status |-> 0, body |-> NoBody]

NoErr == ""

Conns == 1..MaxConns

PipelineConns == {1}

\* ------------------------------------------------------- library pieces
\* strings.Split(s, ",")
RECURSIVE Split(_)
Split(s) ==
    IF \A i \in DOMAIN s : s[i] # ","
    THEN <<s>>
    ELSE LET i == CHOOSE k \in DOMAIN s :
                      s[k] = "," /\ \A m \in 1..(k - 1) : s[m] # ","
         IN  <<SubSeq(s, 1, i - 1)>> \o Split(SubSeq(s, i + 1, Len(s)))

\* a comparison the wrong way round
LessDesc(p, q) == p.rating > q.rating

\* the less function handed to sort.Slice
Less(p, q) == p.rating < q.rating

\* a fetch that forgets to sort
SortSliceNone(s) == {s}

\* sort.Slice(s, Less): every arrangement of s in which no element is
\* Less than one before it
SortSlice(s) ==
    {t \in {[i \in 1..Len(s) |-> s[f[i]]] : f \in Perms(Len(s))} :
        \A i, j \in 1..Len(s) : i < j => ~Less(t[j], t[i])}

\* a fetch answered from the reply another request on the same path got
HttpGetCached(c, wire) ==
    IF \E d \in Conns : d # c /\ pc[d] = "done" /\ req[d] = req[c] /\ sent[d] # NoReply
    THEN sent[CHOOSE d \in Conns :
                  d # c /\ pc[d] = "done" /\ req[d] = req[c] /\ sent[d] # NoReply]
    ELSE wire

\* http.Get(url) as seen by the caller: the reply upstream put on the wire
HttpGet(c, wire) == wire

\* err.Error() of the first failing step of a fetch
FetchError(rep) ==
    CASE rep.kind = "transport" -> "Get: transport error"
      [] rep.kind = "readerr"   -> "unexpected EOF"
      [] rep.kind = "badjson"   -> "invalid character"
      [] OTHER                  -> NoErr

\* json.NewEncoder(w).Encode(problems)
Encode(problems) ==
    IF problems.isNil
    THEN [kind |-> "null", text |-> "", items |-> <<>>]
    ELSE [kind |-> "array", text |-> "", items |-> problems.elems]

\* ----------------------------------------------------------- the fetches
\* the outcomes of one fetch: [err, problems]
fetchCodeforcesProblemSetWithTag(tag, rep) ==
    IF FetchError(rep) # NoErr
    THEN {[err |-> FetchError(rep), problems |-> NilSlice]}
    ELSE {[err |-> NoErr,
           problems |-> [isNil |-> rep.problems.isNil, elems |-> t]] :
              t \in SortSlice(rep.problems.elems)}

\* a fetch that returns only the head of the list
fetchCodeforcesProblemSetWithTagsFirstOnly(tags, rep) ==
    IF FetchError(rep) # NoErr
    THEN {[err |-> FetchError(rep), problems |-> NilSlice]}
    ELSE {[err |-> NoErr,
           problems |-> [isNil |-> rep.problems.isNil,
                         elems |-> SubSeq(t, 1, IF Len(t) > 1 THEN 1 ELSE Len(t))]] :
              t \in SortSlice(rep.problems.elems)}

fetchCodeforcesProblemSetWithTags(tags, rep) ==
    IF FetchError(rep) # NoErr
    THEN {[err |-> FetchError(rep), problems |-> NilSlice]}
    ELSE {[err |-> NoErr,
           problems |-> [isNil |-> rep.problems.isNil, elems |-> t]] :
              t \in SortSlice(rep.problems.elems)}

\* a filter that also keeps problems with more tags
AppendWithTagCountAtLeast(all, n) ==
    LET kept == SelectSeq(all, LAMBDA p : Len(p.tags) >= n)
    IN  [isNil |-> kept = <<>>, elems |-> kept]

\* var problems []Problem; append the problems with n tags
AppendWithTagCount(all, n) ==
    LET kept == SelectSeq(all, LAMBDA p : Len(p.tags) = n)
    IN  [isNil |-> kept = <<>>, elems |-> kept]

\* an exact-match fetch that drops the error of the fetch it wraps
fetchCodeforcesProblemSetWithTagOnlyIgnoringErr(tag, rep) ==
    {[err |-> NoErr, problems |-> AppendWithTagCount(out.problems.elems, 1)] :
        out \in fetchCodeforcesProblemSetWithTag(tag, rep)}

fetchCodeforcesProblemSetWithTagOnly(tag, rep) ==
    {IF out.err # NoErr
     THEN [err |-> out.err, problems |-> NilSlice]
     ELSE [err |-> NoErr, problems |-> AppendWithTagCount(out.problems.elems, 1)] :
        out \in fetchCodeforcesProblemSetWithTag(tag, rep)}

fetchCodeforcesProblemSetWithTagsOnly(tags, rep) ==
    {IF out.err # NoErr
     THEN [err |-> out.err, problems |-> NilSlice]
     ELSE [err |-> NoErr, problems |-> AppendWithTagCount(out.problems.elems, Len(tags))] :
        out \in fetchCodeforcesProblemSetWithTags(tags, rep)}

\* ---------------------------------------------------------- the handlers
\* /health registered with a problem handler
RouteHealthMisregistered(path) ==
    CASE path = "/health"              -> "problemsByTagHandler"
      [] path = "/problems"            -> "problemsByTagHandler"
      [] path = "/problems/multi"      -> "problemsByTagsHandler"
      [] path = "/problems/only"       -> "problemsByTagOnlyHandler"
      [] path = "/problems/multi/only" -> "problemsByTagsOnlyHandler"
      [] OTHER                         -> "NotFound"

\* mux.HandleFunc registrations; an unregistered path gets the mux's 404
Route(path) ==
    CASE path = "/health"              -> "healthHandler"
      [] path = "/problems"            -> "problemsByTagHandler"
      [] path = "/problems/multi"      -> "problemsByTagsHandler"
      [] path = "/problems/only"       -> "problemsByTagOnlyHandler"
      [] path = "/problems/multi/only" -> "problemsByTagsOnlyHandler"
      [] OTHER                         -> "NotFound"

\* what a problem handler writes for a fetch outcome
WriteResult(out) ==
    IF out.err # NoErr
    THEN [status |-> StatusInternalServerError,
          body |-> [kind |-> "text", text |-> out.err, items |-> <<>>]]
    ELSE [status |-> StatusOK, body |-> Encode(out.problems)]

\* a listener left open while Shutdown runs
AcceptingUntilExit == server # "exited"

\* the listener takes new connections only until Shutdown is called
AcceptingConnections == server = "serving"

Accept(c, path, param) ==
    /\ AcceptingConnections
    /\ pc[c] = "idle"
    /\ pc' = [pc EXCEPT ![c] = "handling"]
    /\ req' = [req EXCEPT ![c] = [path |-> path, param |-> param]]
    /\ UNCHANGED <<sent, resp, calls, server, elapsed>>

\* a problem handler from its first line to its last: one upstream call,
\* whose reply is `wire`, and one response
Serve(c, wire, outcomes) ==
    /\ \E out \in outcomes :
          resp' = [resp EXCEPT ![c] = WriteResult(out)]
    /\ sent' = [sent EXCEPT ![c] = wire]
    /\ calls' = [calls EXCEPT ![c] = @ + 1]
    /\ pc' = [pc EXCEPT ![c] = "done"]
    /\ UNCHANGED <<req, server, elapsed>>

\* the handlers; `wires` is what upstream may answer
problemsByTagHandler(c, wires) ==
    /\ pc[c] = "handling"
    /\ Route(req[c].path) = "problemsByTagHandler"
    /\ \E wire \in wires :
          Serve(c, wire,
                fetchCodeforcesProblemSetWithTag(req[c].param, HttpGet(c, wire)))

problemsByTagsHandler(c, wires) ==
    /\ pc[c] = "handling"
    /\ Route(req[c].path) = "problemsByTagsHandler"
    /\ \E wire \in wires :
          Serve(c, wire,
                fetchCodeforcesProblemSetWithTags(Split(req[c].param), HttpGet(c, wire)))

problemsByTagOnlyHandler(c, wires) ==
    /\ pc[c] = "handling"
    /\ Route(req[c].path) = "problemsByTagOnlyHandler"
    /\ \E wire \in wires :
          Serve(c, wire,
                fetchCodeforcesProblemSetWithTagOnly(req[c].param, HttpGet(c, wire)))

problemsByTagsOnlyHandler(c, wires) ==
    /\ pc[c] = "handling"
    /\ Route(req[c].path) = "problemsByTagsOnlyHandler"
    /\ \E wire \in wires :
          Serve(c, wire,
                fetchCodeforcesProblemSetWithTagsOnly(Split(req[c].param), HttpGet(c, wire)))

healthHandler(c) ==
    /\ pc[c] = "handling"
    /\ Route(req[c].path) = "healthHandler"
    /\ resp' = [resp EXCEPT ![c] =
                  [status |-> StatusOK,
                   body |-> [kind |-> "text", text |-> "ok", items |-> <<>>]]]
    /\ pc' = [pc EXCEPT ![c] = "done"]
    /\ UNCHANGED <<req, sent, calls, server, elapsed>>

NotFound(c) ==
    /\ pc[c] = "handling"
    /\ Route(req[c].path) = "NotFound"
    /\ resp' = [resp EXCEPT ![c] =
                  [status |-> StatusNotFound,
                   body |-> [kind |-> "text", text |-> "404 page not found",
                             items |-> <<>>]]]
    /\ pc' = [pc EXCEPT ![c] = "done"]
    /\ UNCHANGED <<req, sent, calls, server, elapsed>>

\* the response has been delivered; the connection can serve again
Close(c) ==
    /\ pc[c] = "done"
    /\ server # "exited"
    /\ pc' = [pc EXCEPT ![c] = "idle"]
    /\ req' = [req EXCEPT ![c] = NoReq]
    /\ sent' = [sent EXCEPT ![c] = NoReply]
    /\ resp' = [resp EXCEPT ![c] = NoResp]
    /\ calls' = [calls EXCEPT ![c] = 0]
    /\ UNCHANGED <<server, elapsed>>

\* ------------------------------------------------------------- lifecycle
\* SIGINT/SIGTERM arrives: shutdownGracefully calls server.Shutdown(ctx)
Signal ==
    /\ server = "serving"
    /\ server' = "draining"
    /\ elapsed' = 0
    /\ UNCHANGED <<pc, req, sent, resp, calls>>

\* a second of the grace period passes
Tick ==
    /\ server = "draining"
    /\ elapsed < GracePeriod
    /\ elapsed' = elapsed + 1
    /\ UNCHANGED <<pc, req, sent, resp, calls, server>>

\* Shutdown finds no request in flight and returns nil; main returns
ShutdownReturns ==
    /\ server = "draining"
    /\ \A c \in Conns : pc[c] # "handling"
    /\ server' = "exited"
    /\ UNCHANGED <<pc, req, sent, resp, calls, elapsed>>

\* the context expires with requests in flight: Shutdown returns its error,
\* main returns and the process ends under the running handlers
GraceExpired ==
    /\ server = "draining"
    /\ elapsed = GracePeriod
    /\ \E c \in Conns : pc[c] = "handling"
    /\ server' = "exited"
    /\ pc' = [c \in Conns |-> IF pc[c] = "handling" THEN "abandoned" ELSE pc[c]]
    /\ UNCHANGED <<req, sent, resp, calls, elapsed>>

\* -------------------------------------------------------- specifications
Init ==
    /\ pc = [c \in Conns |-> "idle"]
    /\ req = [c \in Conns |-> NoReq]
    /\ sent = [c \in Conns |-> NoReply]
    /\ resp = [c \in Conns |-> NoResp]
    /\ calls = [c \in Conns |-> 0]
    /\ server = "serving"
    /\ elapsed = 0

\* the request pipeline: one connection, every query and upstream reply
Next ==
    \/ \E c \in PipelineConns, path \in Paths, param \in Params : Accept(c, path, param)
    \/ \E c \in PipelineConns : problemsByTagHandler(c, Replies)
    \/ \E c \in PipelineConns : problemsByTagsHandler(c, Replies)
    \/ \E c \in PipelineConns : problemsByTagOnlyHandler(c, Replies)
    \/ \E c \in PipelineConns : problemsByTagsOnlyHandler(c, Replies)
    \/ \E c \in PipelineConns : healthHandler(c)
    \/ \E c \in PipelineConns : NotFound(c)
    \/ \E c \in PipelineConns : Close(c)

Spec == Init /\ [][Next]_vars

\* the server: concurrent connections and shutdown, small upstream replies
ServerNext ==
    \/ \E c \in Conns, path \in Paths, param \in ServerParams : Accept(c, path, param)
    \/ \E c \in Conns : problemsByTagHandler(c, ServerReplies)
    \/ \E c \in Conns : problemsByTagsHandler(c, ServerReplies)
    \/ \E c \in Conns : problemsByTagOnlyHandler(c, ServerReplies)
    \/ \E c \in Conns : problemsByTagsOnlyHandler(c, ServerReplies)
    \/ \E c \in Conns : healthHandler(c)
    \/ \E c \in Conns : NotFound(c)
    \/ \E c \in Conns : Close(c)
    \/ Signal
    \/ Tick
    \/ ShutdownReturns
    \/ GraceExpired

\* time passes and Shutdown's polling loop runs; upstream and the signal
\* owe the server nothing
ServerSpec ==
    /\ Init
    /\ [][ServerNext]_vars
    /\ WF_vars(Tick)
    /\ WF_vars(ShutdownReturns)
    /\ WF_vars(GraceExpired)

TypeOK ==
    /\ pc \in [Conns -> {"idle", "handling", "done", "abandoned"}]
    /\ server \in {"serving", "draining", "exited"}
    /\ elapsed \in 0..GracePeriod
    /\ calls \in [Conns -> 0..1]

\* ---------------------------------------------------------------- claims
ProblemPaths == {"/problems", "/problems/multi", "/problems/only",
                 "/problems/multi/only"}

AnyMatchPaths == {"/problems", "/problems/multi"}

ExactMatchPaths == {"/problems/only", "/problems/multi/only"}

\* connection c holds the finished response of a problem query
Answered(c) == pc[c] = "done" /\ req[c].path \in ProblemPaths

Succeeded(c) == Answered(c) /\ resp[c].status = 200

\* the problem list upstream sent, and the one the client got
UpstreamList(c) == sent[c].problems.elems

Items(c) == resp[c].body.items

\* the number of tags asked for: one, or the comma-separated elements
RequestedTagCount(c) ==
    IF req[c].path = "/problems/multi/only"
    THEN Cardinality({i \in DOMAIN req[c].param : req[c].param[i] = ","}) + 1
    ELSE 1

\* the part of the upstream list the query asks for
Wanted(c) ==
    IF req[c].path \in ExactMatchPaths
    THEN SelectSeq(UpstreamList(c), LAMBDA p : Len(p.tags) = RequestedTagCount(c))
    ELSE UpstreamList(c)

Occurrences(s, x) == Cardinality({i \in DOMAIN s : s[i] = x})

SameBag(s, t) ==
    /\ Len(s) = Len(t)
    /\ \A x \in Range(s) \cup Range(t) : Occurrences(s, x) = Occurrences(t, x)

\* C1: in all four query modes a successful response is sorted by rating
\* ascending: for all positions i < j, result[i].rating <= result[j].rating.
C1_SortedByRating ==
    \A c \in Conns :
        Succeeded(c) =>
            \A i, j \in DOMAIN Items(c) :
                i < j => Items(c)[i].rating <= Items(c)[j].rating

\* an exact-match response whose two problems arrived in descending order
C1_Witness ==
    \E c \in Conns :
        /\ Succeeded(c)
        /\ req[c].path = "/problems/only"
        /\ Len(UpstreamList(c)) = 2
        /\ UpstreamList(c)[1].rating > UpstreamList(c)[2].rating
        /\ Len(Items(c)) = 2
        /\ Items(c)[1].rating < Items(c)[2].rating

C3_AnyMatchIsPermutation ==
    \A c \in Conns :
        (Succeeded(c) /\ req[c].path \in AnyMatchPaths) =>
            SameBag(Items(c), UpstreamList(c))

\* a multi-tag response that repeats a problem upstream sent twice, a problem
\* that does not carry the requested tag
C3_Witness ==
    \E c \in Conns :
        /\ Succeeded(c)
        /\ req[c].path = "/problems/multi"
        /\ Len(UpstreamList(c)) = 2
        /\ UpstreamList(c)[1] = UpstreamList(c)[2]
        /\ UpstreamList(c)[1].tags = <<"greedy">>
        /\ Len(Items(c)) = 2

\* res is s rearranged so that a problem of lower rating comes before every
\* problem of higher rating; with `stable`, problems of equal rating also
\* keep the order they have in s
Rearranged(s, res, stable) ==
    /\ Len(res) = Len(s)
    /\ \E f \in Perms(Len(s)) :
          /\ \A i \in DOMAIN s : res[f[i]] = s[i]
          /\ \A i, j \in DOMAIN s : s[i].rating < s[j].rating => f[i] < f[j]
          /\ stable =>
                \A i, j \in DOMAIN s :
                    (i < j /\ s[i].rating = s[j].rating) => f[i] < f[j]

\* C4 as stated: the sort is stable, problems of equal rating keep their
\* upstream order in the response.
C4_StableSort ==
    \A c \in Conns : Succeeded(c) => Rearranged(Wanted(c), Items(c), TRUE)

\* C4 as amended: the response is the wanted part of the upstream list
\* with every problem of lower rating before every problem of higher
\* rating; the order between problems of equal rating is not fixed.
C4_OrderFixedAcrossRatingsOnly ==
    \A c \in Conns : Succeeded(c) => Rearranged(Wanted(c), Items(c), FALSE)

\* two different problems of equal rating answered in the opposite order
C4_Witness ==
    \E c \in Conns :
        /\ Succeeded(c)
        /\ req[c].path = "/problems"
        /\ Len(UpstreamList(c)) = 2
        /\ UpstreamList(c)[1].rating = UpstreamList(c)[2].rating
        /\ UpstreamList(c)[1] # UpstreamList(c)[2]
        /\ Items(c) = <<UpstreamList(c)[2], UpstreamList(c)[1]>>

\* C5: a non-2xx answer of upstream is a fetch error: the handler
\* responds 500 and not 200.
C5_Non2xxIsFetchError ==
    \A c \in Conns :
        (/\ Answered(c)
         /\ sent[c].kind \in {"readerr", "badjson", "json"}
         /\ sent[c].status \notin 200..299) =>
            resp[c].status = 500

\* C6: an error of the upstream client ends the request: status 500, the
\* error text as body, no problem data, and one upstream call only.
C6_UpstreamErrorIsTerminal ==
    \A c \in Conns :
        (Answered(c) /\ sent[c].kind \in {"transport", "readerr", "badjson"}) =>
            /\ resp[c].status = 500
            /\ resp[c].body.kind = "text"
            /\ resp[c].body.text # ""
            /\ resp[c].body.items = <<>>
            /\ calls[c] = 1

\* an exact-match query answered 500 after upstream sent an undecodable body
C6_Witness ==
    \E c \in Conns :
        /\ Answered(c)
        /\ req[c].path = "/problems/only"
        /\ sent[c].kind = "badjson"
        /\ resp[c].status = 500
        /\ calls[c] = 1

\* C7, state part: two answered requests with the same query and the same
\* upstream reply carry the same status and the same problems, and every
\* answered request made exactly one upstream call of its own.
C7_SameQuerySameReplySameAnswer ==
    /\ \A c \in Conns : Answered(c) => calls[c] = 1
    /\ \A c, d \in Conns :
          (Answered(c) /\ Answered(d) /\ req[c] = req[d] /\ sent[c] = sent[d]) =>
             /\ resp[c].status = resp[d].status
             /\ resp[c].body.kind = resp[d].body.kind
             /\ resp[c].body.text = resp[d].body.text
             /\ SameBag(Items(c), Items(d))

\* C7, step part: no step taken for one request changes the answer another
\* request already has
C7_NoInterference ==
    \A c \in Conns :
        (pc[c] = "done" /\ pc'[c] = "done") =>
            (resp'[c] = resp[c] /\ sent'[c] = sent[c] /\ calls'[c] = calls[c])

C8_HealthAlwaysOk ==
    \A c \in Conns :
        (pc[c] = "done" /\ req[c].path = "/health") =>
            /\ resp[c].status = 200
            /\ resp[c].body.kind = "text"
            /\ resp[c].body.text = "ok"
            /\ calls[c] = 0
            /\ sent[c] = NoReply

\* /health is answered while another request has just failed on an
\* unreachable upstream
C8_Witness ==
    \E c, d \in Conns :
        /\ pc[c] = "done" /\ req[c].path = "/health" /\ resp[c].status = 200
        /\ Answered(d) /\ sent[d].kind = "transport" /\ resp[d].status = 500

\* C9, step part: once the signal has arrived no connection is accepted, a
\* written response is not taken back, and a request is abandoned only
\* when the grace period has run out with the request still in flight
C9_ShutdownStep ==
    \A c \in Conns :
        /\ (server # "serving" /\ pc[c] = "idle") => pc'[c] = "idle"
        /\ pc[c] = "done" => (pc'[c] \in {"done", "idle"} /\
                              (pc'[c] = "done" => resp'[c] = resp[c]))
        /\ (pc[c] # "abandoned" /\ pc'[c] = "abandoned") =>
              (pc[c] = "handling" /\ server = "draining" /\ elapsed = GracePeriod)
        /\ (pc[c] = "handling" /\ pc'[c] = "done") =>
              (server' # "exited" /\ resp'[c] # NoResp)

\* C9: graceful shutdown: requests are accepted until the signal, none
\* after it; a request finishing within the grace period gets its
\* response; requests still running at its end are abandoned; the process
\* terminates in either case.
C9_GracefulShutdown ==
    /\ [][C9_ShutdownStep]_vars
    /\ [](server = "serving" => \A c \in Conns : pc[c] # "abandoned")
    /\ (server = "draining") ~> (server = "exited")

\* the process has ended: one request got its answer, another was abandoned
C9_Witness ==
    /\ server = "exited"
    /\ elapsed = GracePeriod
    /\ \E c, d \in Conns :
          /\ pc[c] = "done" /\ resp[c] # NoResp
          /\ pc[d] = "abandoned" /\ resp[d] = NoResp

\* C10: a successful problem response has a JSON array as body, the empty
\* array when no problem is left, never null.
C10_SuccessBodyIsArray ==
    \A c \in Conns : Succeeded(c) => resp[c].body.kind = "array"

====
